---------------------------- MODULE Spec2Model ----------------------------
(***************************************************************************)
(* The SSE re-streaming and tool-call accumulation logic of the            *)
(* online-cs-backend worker.                                               *)
(*                                                                         *)
(*  - SpecParser : the carry-over buffer of processMainChatbotResponse at  *)
(*                 the level of characters and chunks.                     *)
(*  - Spec       : one upstream turn at the level of lines: processLine,   *)
(*                 the tool-call accumulator, the department call and the  *)
(*                 output stream (streaming revision, src/src/index.ts).   *)
(*  - SpecAccumulator : one tool call sent in fragments to an idle         *)
(*                 accumulator.                                            *)
(*  - SpecHybrid : the fetch loop of the hybrid revision                   *)
(*                 (src/unnamed/part_001), which re-runs the turn.         *)
(*  - SpecStreaming : the fetch handler of the streaming revision          *)
(*                 (src/src/index.ts): request checks and one turn.        *)
(*  - SpecFormat : formatDepartmentResponse on its own.                    *)
(*  - SpecEnvelope : the chunk object built by enqueueContentChunk from    *)
(*                 an upstream event, in both revisions.                   *)
(*  - SpecSingleShot : the tool-call loop of the single-shot revisions     *)
(*                 (src/src/index.ts from line 221, src/unnamed/part_000), *)
(*                 which take the whole upstream answer at once.           *)
(***************************************************************************)
EXTENDS Integers, Sequences, FiniteSets, TLC

(***************************************************************************)
(* Bounds of the model.                                                    *)
(***************************************************************************)
\* upstream lines handed to processLine in one turn
MaxLines == 3
\* characters of accumulated tool-call argument text
MaxArgLen == 4
\* characters of upstream text in the parser specification
MaxText == 4
\* upstream calls of one request in the hybrid fetch loop
MaxCalls == 4
\* members of a department completion object
MaxMembers == 2
\* tool calls in the message of a single-shot upstream answer
MaxToolCalls == 2

(***************************************************************************)
(* Sequences of characters.                                                *)
(***************************************************************************)
NL == "\n"

EndsWith(s, c) == Len(s) > 0 /\ s[Len(s)] = c

RECURSIVE SeqsUpTo(_, _)
SeqsUpTo(S, n) ==
    IF n = 0 THEN {<<>>}
    ELSE LET shorter == SeqsUpTo(S, n - 1)
         IN  shorter \cup {Append(s, c) : s \in shorter, c \in S}


(***************************************************************************)
(* The SSE frame parser: buffer.split('\n') and the carry-over.            *)
(***************************************************************************)
\* characters of the upstream text: two ordinary characters and the newline
TextChars == {"a", "b", NL}

\* s.split('\n'): the segments between newlines, always at least one
RECURSIVE split(_)
split(s) ==
    IF s = <<>> THEN << <<>> >>
    ELSE LET front == split(SubSeq(s, 1, Len(s) - 1))
             n     == Len(front)
             c     == s[Len(s)]
         IN  IF c = NL THEN Append(front, <<>>)
             ELSE [front EXCEPT ![n] = Append(front[n], c)]

\* the carry-over dropped instead of kept
CarryOverDropped(lines) == <<>>

\* buffer = lines.pop() || '': the last, possibly incomplete, segment
CarryOver(lines) == lines[Len(lines)]

\* the carry-over handed on as a last line when the stream ends
afterDoneFlushed(carry) == IF carry = <<>> THEN <<>> ELSE <<carry>>

\* if (done) break: the loop is left at once, no line is handed on
afterDone(carry) == <<>>

\* the lines left in the array after the pop: those the for loop hands on
CompleteLines(lines) == SubSeq(lines, 1, Len(lines) - 1)

\* one pass of the read loop's body on a decoded chunk
ReadChunkStep(buf, chunk) ==
    LET lines == split(buf \o chunk)
    IN  [buffer |-> CarryOver(lines), lines |-> CompleteLines(lines)]

(***************************************************************************)
(* Tool-call argument text and JSON.parse.                                 *)
(*                                                                         *)
(* Argument text is a sequence over four characters: the braces, blank     *)
(* space, and "q", which stands for the member "customerQuery":"q" (an     *)
(* inner "{" stands for the start of a nested object member).  JSON.parse  *)
(* accepts exactly: blanks, one balanced object, blanks.                   *)
(***************************************************************************)
LB == "{"
RB == "}"
QM == "q"
WS == " "
ArgChars == {LB, RB, QM, WS}

Undefined == "undefined"

ScanStart == [phase |-> "pre", depth |-> 0, customerQuery |-> Undefined]

ScanChar(st, c) ==
    CASE st.phase = "pre" ->
            IF c = WS THEN st
            ELSE IF c = LB THEN [st EXCEPT !.phase = "in", !.depth = 1]
            ELSE [st EXCEPT !.phase = "bad"]
      [] st.phase = "in" ->
            IF c = LB THEN [st EXCEPT !.depth = @ + 1]
            ELSE IF c = RB THEN
                IF st.depth = 1 THEN [st EXCEPT !.phase = "post", !.depth = 0]
                ELSE [st EXCEPT !.depth = @ - 1]
            ELSE IF c = QM /\ st.depth = 1 THEN [st EXCEPT !.customerQuery = QM]
            ELSE st
      [] st.phase = "post" ->
            IF c = WS THEN st ELSE [st EXCEPT !.phase = "bad"]
      [] OTHER -> st

RECURSIVE Scan(_)
Scan(s) ==
    IF s = <<>> THEN ScanStart
    ELSE ScanChar(Scan(SubSeq(s, 1, Len(s) - 1)), s[Len(s)])

\* JSON.parse(accumulatedArguments) with no check that the text is complete
JSONparseLenient(s) ==
    [threw |-> FALSE, customerQuery |-> Scan(s).customerQuery]

\* JSON.parse(accumulatedArguments): throws on text that is not one JSON value
JSONparse(s) ==
    LET st == Scan(s)
    IN  IF st.phase = "post"
        THEN [threw |-> FALSE, customerQuery |-> st.customerQuery]
        ELSE [threw |-> TRUE, customerQuery |-> Undefined]

\* the text is one complete JSON value
IsValidJSON(s) == Scan(s).phase = "post"

(***************************************************************************)
(* Department mapping.                                                     *)
(***************************************************************************)
NoName == ""
Null == "null"

KnownFunctions ==
    {"call_sports_dept", "call_electronics_dept", "call_travel_dept"}

\* departmentMap is an object literal: besides its three own properties a
\* lookup finds what it inherits from Object.prototype, here "constructor"
InheritedProperties == {"constructor"}
InheritedValue == "Object"

departmentMap ==
    [n \in KnownFunctions |->
        CASE n = "call_sports_dept" -> "LANGBASE_SPORTS_PIPE_API_KEY"
          [] n = "call_electronics_dept" -> "LANGBASE_ELECTRONICS_PIPE_API_KEY"
          [] n = "call_travel_dept" -> "LANGBASE_TRAVEL_PIPE_API_KEY"]

\* departmentMap[functionName] || null
getDepartmentKey(functionName) ==
    IF functionName \in DOMAIN departmentMap THEN departmentMap[functionName]
    ELSE IF functionName \in InheritedProperties THEN InheritedValue
    ELSE Null

\* the function names the upstream model may put in a tool call
FunctionNames == KnownFunctions \cup {"call_unknown_dept"} \cup InheritedProperties

(***************************************************************************)
(* Department completions and formatDepartmentResponse.                    *)
(*                                                                         *)
(* A completion payload is a string; the model keeps whether JSON.parse    *)
(* accepts it, the members of the object as they are written in it, and    *)
(* the raw string.  JSON.parse keeps one property per key (the last value  *)
(* written, at the place of the first), and Object.entries lists the       *)
(* array-index keys first, in ascending order, then the other keys in the  *)
(* order they were written.                                                *)
(* Text is a tuple of pieces, so that `${key} ${value}` is <<key," ",v>>.  *)
(***************************************************************************)
Member(k, v) == [key |-> k, value |-> v]

Number42 == [kind |-> "number", lit |-> "42"]

StringSports == [kind |-> "string", lit |-> "sports"]

EmptyObject == [kind |-> "object", lit |-> "{}"]

MemberValues == {Number42, StringSports, EmptyObject}

\* the keys that are array indices, with their numeric value
IndexKeys == ("3" :> 3) @@ ("7" :> 7)

MemberKeys == {"Ticket No.", "Classification"} \cup DOMAIN IndexKeys

\* `${value}`
TemplateString(value) ==
    IF value.kind = "object" THEN "[object Object]" ELSE value.lit

RECURSIVE Ascending(_)
Ascending(S) ==
    IF S = {} THEN <<>>
    ELSE LET m == CHOOSE x \in S : \A y \in S : x <= y
         IN  <<m>> \o Ascending(S \ {m})

\* the value JSON.parse leaves for key k: the last one written
LastValue(members, k) ==
    LET i == CHOOSE j \in 1..Len(members) :
                 /\ members[j].key = k
                 /\ \A l \in (j + 1)..Len(members) : members[l].key # k
    IN  members[i].value

\* the entries in the order the members are written, one for each member
ObjectEntriesAsWritten(members) ==
    [i \in 1..Len(members) |-> <<members[i].key, members[i].value>>]

\* Object.entries(JSON.parse(text)) for an object with the members written
ObjectEntries(members) ==
    LET written  == {members[i].key : i \in 1..Len(members)}
        indices  == Ascending({IndexKeys[k] : k \in written \cap DOMAIN IndexKeys})
        indexKey(n) == CHOOSE k \in DOMAIN IndexKeys : IndexKeys[k] = n
        first(i) == \A j \in 1..(i - 1) : members[j].key # members[i].key
        named    == {i \in 1..Len(members) :
                        members[i].key \notin DOMAIN IndexKeys /\ first(i)}
        others   == Ascending(named)
    IN  [i \in 1..Len(indices) |->
            <<indexKey(indices[i]), LastValue(members, indexKey(indices[i]))>>]
        \o [i \in 1..Len(others) |->
            <<members[others[i]].key, LastValue(members, members[others[i]].key)>>]

TicketCompletion ==
    [parses  |-> TRUE,
     members |-> <<Member("Ticket No.", Number42),
                   Member("Classification", StringSports)>>,
     raw     |-> "{\"Ticket No.\": 42, \"Classification\": \"sports\"}"]

PlainCompletion ==
    [parses |-> FALSE, members |-> <<>>, raw |-> "We will contact you soon."]

Completions == {TicketCompletion, PlainCompletion}

\* the completion payloads formatDepartmentResponse is applied to on its own:
\* the objects of up to MaxMembers members, and a text that is no JSON
Payloads ==
    {[parses |-> TRUE, members |-> m, raw |-> "{...}"] :
        m \in SeqsUpTo({Member(k, v) : k \in MemberKeys, v \in MemberValues},
                       MaxMembers)}
    \cup {PlainCompletion}

formatDepartmentResponse(response) ==
    IF response.parses /\ Len(ObjectEntries(response.members)) > 0
    THEN LET key   == ObjectEntries(response.members)[1][1]
             value == ObjectEntries(response.members)[1][2]
         IN  <<key, " ", TemplateString(value)>>
    ELSE <<response.raw>>

(***************************************************************************)
(* Upstream lines, as processLine sees them.                               *)
(*   done     the line  data: [DONE]                                       *)
(*   nondata  a line without the prefix "data: "                           *)
(*   badjson  a data line whose payload JSON.parse rejects                 *)
(*   nodelta  a data line whose JSON has no choices or no delta            *)
(*   content  a delta with content                                         *)
(*   toolcall a delta with tool_calls and no content                       *)
(*   empty    a delta with neither                                         *)
(***************************************************************************)
LineKinds == {"done", "nondata", "badjson", "nodelta", "content", "toolcall", "empty"}

\* the argument fragments a tool-call delta may carry in Spec: nothing, the
\* start and the end of {q}, {q} whole, the nested start {{}, "}" and a blank

Fragments ==
    {<<>>, <<LB>>, <<QM, RB>>, <<LB, QM, RB>>, <<LB, LB, RB>>, <<RB>>, <<WS>>}

Hello == <<"Hello">>

PlainLine(k) == [kind |-> k, name |-> NoName, arguments |-> <<>>, content |-> <<>>]

ContentLine == [PlainLine("content") EXCEPT !.content = Hello]

ToolCallLine(n, a) == [PlainLine("toolcall") EXCEPT !.name = n, !.arguments = a]

UpstreamLines ==
    {PlainLine(k) : k \in {"done", "nondata", "badjson", "nodelta", "empty"}}
    \cup {ContentLine}
    \cup {ToolCallLine(n, a) : n \in FunctionNames \cup {NoName}, a \in Fragments}

NoLine == PlainLine("none")

(***************************************************************************)
(* Output frames.  In the specifications that go line by line, env stands  *)
(* for the upstream event whose id, created and model a frame copies: the  *)
(* position of its line in the turn.  The fields themselves, and object,   *)
(* are in chunkOf below.                                                   *)
(***************************************************************************)
DoneFrame == [kind |-> "done", env |-> 0, content |-> <<>>]

\* enqueueContentChunk(controller, data, content)
enqueueContentChunk(env, content) ==
    <<[kind |-> "content", env |-> env, content |-> content]>>

\* the object field written by the streaming revision
ChunkObject == "chat.completion.chunk"

\* the fields of a parsed upstream event that enqueueContentChunk reads; a
\* field the event does not have reads as undefined
Events ==
    [id      : {"chatcmpl-1", "chatcmpl-2", Undefined},
     object  : {ChunkObject, "chat.completion", Undefined},
     created : {"1700000000", "1700000001"},
     model   : {"gpt-4o", "gpt-4o-mini"}]

NoEvent == [id |-> Undefined, object |-> Undefined, created |-> Undefined,
            model |-> Undefined]

NoChunk == [id |-> Undefined, object |-> Undefined, created |-> Undefined,
            model |-> Undefined, content |-> <<>>]

\* const chunk = { id: data.id, object: 'chat.completion.chunk', ... } of
\* the streaming revision
chunkOf(data, content) ==
    [id |-> data.id, object |-> ChunkObject, created |-> data.created,
     model |-> data.model, content |-> content]

\* const chunk = { id: data.id, object: data.object, ... } of the hybrid
\* revision
chunkOfHybrid(data, content) ==
    [id |-> data.id, object |-> data.object, created |-> data.created,
     model |-> data.model, content |-> content]

(***************************************************************************)
(* The tool-call accumulator and processLine.                              *)
(***************************************************************************)
NoToolCall == [present |-> FALSE, name |-> NoName]

\* a call of callDepartment: its parameters, with the argument text that was
\* parsed, the line being processed and how the department answered
NoCall == [deptKey |-> Null, customerQuery |-> Undefined, arguments |-> <<>>,
           env |-> 0, status |-> "none"]

\* accumulatedArguments = fragment: the buffer restarted by every fragment
accumulateOverwrite(args, fragment) == fragment

\* accumulatedArguments += delta.tool_calls[0].function.arguments || ''
accumulate(args, fragment) == args \o fragment

\* what processLine returns or, with call set, where it suspends
Result(tc, args, emit, call, threw) ==
    [tc |-> tc, args |-> args, emit |-> emit, call |-> call, threw |-> threw,
     detected |-> FALSE]

\* the catch block forgets the pending call
ReturnAfterCatchReset(tc, args) == Result(NoToolCall, <<>>, <<>>, NoCall, "arguments")

\* JSON.parse(accumulatedArguments) threw: the catch block logs, and
\* return [accumulatedToolCall, accumulatedArguments] hands back the locals
\* as the branch has updated them
ReturnAfterCatch(tc, args) == Result(tc, args, <<>>, NoCall, "arguments")

\* a pending call without a name takes the name of a later fragment
startOrKeepFillingName(tc, line) ==
    IF tc.present /\ tc.name # NoName THEN tc
    ELSE [present |-> TRUE, name |-> line.name]

\* if (!accumulatedToolCall) { accumulatedToolCall = delta.tool_calls[0]; ... }:
\* only an idle accumulator takes the fragment as the pending call
startOrKeep(tc, line) ==
    IF tc.present THEN tc ELSE [present |-> TRUE, name |-> line.name]

\* only the pending call is forgotten, the argument text stays
resetCallOnly(tc, args) == Result(NoToolCall, args, <<>>, NoCall, "none")

\* accumulatedToolCall = null; accumulatedArguments = ''
resetAccumulator(tc, args) == Result(NoToolCall, <<>>, <<>>, NoCall, "none")

\* the line is skipped and the accumulator with it
returnIdle(tc, args) == Result(NoToolCall, <<>>, <<>>, NoCall, "none")

\* return [accumulatedToolCall, accumulatedArguments] of a line that is
\* skipped: not a data line, or a data event without choices[0].delta
returnAccumulator(tc, args) == Result(tc, args, <<>>, NoCall, "none")

\* the branch delta.tool_calls of processLine
processToolCall(line, env, tc, args) ==
    LET tc1   == startOrKeep(tc, line)
        args1 == IF tc.present THEN accumulate(args, line.arguments)
                 ELSE line.arguments
    IN  IF tc1.name # NoName /\ EndsWith(args1, RB)
        THEN LET departmentKey == getDepartmentKey(tc1.name)
             IN  IF departmentKey # Null
                 THEN LET parsed == JSONparse(args1)
                      IN  IF parsed.threw
                          THEN ReturnAfterCatch(tc1, args1)
                          ELSE Result(tc1, args1, <<>>,
                                      [deptKey       |-> departmentKey,
                                       customerQuery |-> parsed.customerQuery,
                                       arguments     |-> args1,
                                       env           |-> env,
                                       status        |-> "pending"],
                                      "none")
                 ELSE resetAccumulator(tc1, args1)
        ELSE Result(tc1, args1, <<>>, NoCall, "none")

\* processLine up to its return or to the await of callDepartment
processLine(line, env, tc, args) ==
    CASE line.kind = "done"    -> Result(tc, args, <<DoneFrame>>, NoCall, "none")
      [] line.kind = "nondata" -> returnAccumulator(tc, args)
      [] line.kind = "badjson" -> Result(tc, args, <<>>, NoCall, "line")
      [] line.kind = "nodelta" -> returnAccumulator(tc, args)
      [] line.kind = "content" ->
            Result(tc, args, enqueueContentChunk(env, line.content), NoCall, "none")
      [] line.kind = "toolcall" ->
            \* hybrid revision: sharedState.toolCallDetected = true comes first
            [processToolCall(line, env, tc, args) EXCEPT !.detected = TRUE]
      [] OTHER -> Result(tc, args, <<>>, NoCall, "none")

\* controller.enqueue(...) that puts the frames ahead of those waiting
controllerEnqueueFirst(queue, frames) == frames \o queue

\* controller.enqueue(...): the frames join the end of the output stream
controllerEnqueue(queue, frames) == queue \o frames

\* callDepartment(...) without await: the read loop goes on
callNotAwaited(call) == "read"

\* await callDepartment(...): processLine, and the for loop that awaits
\* processLine, stand still until the department has answered
awaitCall(call) == "dept"

\* sharedState.toolCallDetected taken from the last line alone
detectLast(flag, r) == r.detected

\* sharedState.toolCallDetected = true is the only assignment within a turn
detect(flag, r) == flag \/ r.detected

\* no try/catch around the body: what is thrown leaves processLine
EscapesUncaught(threw) == threw # "none"

\* try { ... } catch (error) { console.warn(...) }: nothing leaves processLine
Escapes(threw) == FALSE

(***************************************************************************)
(* State.                                                                  *)
(***************************************************************************)
VARIABLES
    pc,                    \* where the read loop stands: read, dept, done
                           \* (idle: between the turns of the fetch loop)
    text,                  \* parser: the whole upstream text
    pos,                   \* parser: characters of text already delivered
    chunkEnds,             \* parser: the positions at which a chunk ended
    buffer,                \* parser: the carry-over
    handed,                \* parser: the lines handed to processLine, in order
    accumulatedToolCall,   \* the pending tool call, or NoToolCall
    accumulatedArguments,  \* its argument text so far
    out,                   \* the frames enqueued on the output stream
    streamState,           \* open, closed or errored
    cur,                   \* the line processLine was last called with
    nLines,                \* how many lines processLine was called with
    deptCalls,             \* the calls of callDepartment, in order
    failures,              \* the recoverable failures met so far
    logical,               \* accumulator specification: the tool call the
                           \* upstream is sending, and how far it has sent it
    request,               \* fetch: the incoming request
    fpc,                   \* fetch: where the handler stands
    threadId,              \* fetch: the thread id in effect
    upstreamCalls,         \* fetch: the calls of callMainChatbot, in order
    turns,                 \* fetch: toolCallDetected of each finished turn
    toolCallDetected,      \* hybrid revision: sharedState.toolCallDetected
    response,              \* fetch: the Response returned
    bindings,              \* fetch: env, the bindings of the worker
    mainResponse,          \* fetch: the last answer of the main chatbot
    bodyRead,              \* fetch: request.json() was called
    payload,               \* format: the completion to be formatted
    rendered,              \* format: what formatDepartmentResponse returned
    data,                  \* envelope: the parsed upstream event
    chunk,                 \* envelope: the chunk object that was enqueued
    assistantMessage,      \* single-shot: the message of the upstream answer
    nextToolCall,          \* single-shot: position of the for loop in tool_calls
    responseStream         \* single-shot: the stream the handler will return

parserVars == <<text, pos, chunkEnds, buffer, handed>>
streamVars == <<accumulatedToolCall, accumulatedArguments, out, streamState,
                cur, nLines, deptCalls, failures, logical>>
fetchVars == <<request, fpc, threadId, upstreamCalls, turns, response, bindings,
               mainResponse, bodyRead>>
singleVars == <<assistantMessage, nextToolCall, responseStream>>
formatVars == <<payload, rendered, data, chunk, singleVars>>
vars == <<pc, parserVars, streamVars, fetchVars, toolCallDetected, formatVars>>

NoLogical == [name |-> NoName, text |-> <<>>, pos |-> 0]

NoThread == <<>>

NoRequest ==
    [method |-> "none", parses |-> FALSE, messagesKind |-> "missing",
     messages |-> <<>>, bodyThread |-> NoThread, headerThread |-> NoThread]

NoResponse == [status |-> 0, kind |-> "none", text |-> "", body |-> <<>>,
               threadHeader |-> NoThread, headers |-> {}]

\* the main chatbot has not answered
NoMainResponse == [answered |-> FALSE, ok |-> FALSE, hasBody |-> FALSE]

\* every credential is bound
AllBound == [mainKey |-> TRUE]

\* content: null, tool_calls: []
NoMessage == [content |-> Null, tool_calls |-> <<>>]

\* no single-shot handler is running
SingleIdle ==
    /\ assistantMessage = NoMessage
    /\ nextToolCall = 0
    /\ responseStream = <<>>

\* formatDepartmentResponse is not being applied on its own
FormatIdle ==
    /\ payload = PlainCompletion
    /\ rendered = <<>>
    /\ data = NoEvent
    /\ chunk = NoChunk
    /\ SingleIdle

\* no fetch handler is running
FetchIdle ==
    /\ request = NoRequest
    /\ fpc = "none"
    /\ threadId = NoThread
    /\ upstreamCalls = <<>>
    /\ turns = <<>>
    /\ toolCallDetected = FALSE
    /\ response = NoResponse
    /\ bindings = AllBound
    /\ mainResponse = NoMainResponse
    /\ bodyRead = FALSE
    /\ FormatIdle

ParserIdle ==
    /\ text = <<>> /\ pos = 0 /\ chunkEnds = {} /\ buffer = <<>> /\ handed = <<>>

StreamIdle ==
    /\ accumulatedToolCall = NoToolCall
    /\ accumulatedArguments = <<>>
    /\ out = <<>>
    /\ streamState = "open"
    /\ cur = NoLine
    /\ nLines = 0
    /\ deptCalls = <<>>
    /\ failures = {}
    /\ logical = NoLogical

(***************************************************************************)
(* SpecParser: the read loop over chunks of characters.                    *)
(***************************************************************************)
InitParser ==
    /\ pc = "read"
    /\ text \in SeqsUpTo(TextChars, MaxText)
    /\ pos = 0 /\ chunkEnds = {} /\ buffer = <<>> /\ handed = <<>>
    /\ StreamIdle
    /\ FetchIdle

\* const { done, value } = await reader.read() with a chunk of k characters
ReadChunk ==
    /\ pc = "read"
    /\ \E k \in 1..(Len(text) - pos) :
        LET step == ReadChunkStep(buffer, SubSeq(text, pos + 1, pos + k))
        IN  /\ pos' = pos + k
            /\ chunkEnds' = chunkEnds \cup {pos + k}
            /\ buffer' = step.buffer
            /\ handed' = handed \o step.lines
    /\ UNCHANGED <<pc, text, streamVars, fetchVars, toolCallDetected, formatVars>>

\* reader.read() reports done: the loop is left
ReadDone ==
    /\ pc = "read"
    /\ pos = Len(text)
    /\ handed' = handed \o afterDone(buffer)
    /\ pc' = "done"
    /\ UNCHANGED <<text, pos, chunkEnds, buffer, streamVars, fetchVars,
                   toolCallDetected, formatVars>>

NextParser == ReadChunk \/ ReadDone

SpecParser == InitParser /\ [][NextParser]_vars

(***************************************************************************)
(* Spec: one upstream turn, line by line.  By the parser above the lines   *)
(* reach processLine in upstream order whatever the chunking, so the read  *)
(* loop is taken one line at a time.                                       *)
(***************************************************************************)
Init ==
    /\ pc = "read"
    /\ ParserIdle
    /\ StreamIdle
    /\ FetchIdle

\* the for loop calls processLine(line, ...) and takes over what it returns,
\* or processLine suspends at await callDepartment(...)
HandLine(line) ==
    LET r == processLine(line, nLines + 1, accumulatedToolCall,
                         accumulatedArguments)
    IN  /\ pc = "read"
        /\ nLines < MaxLines
        /\ Len(r.args) <= MaxArgLen
        /\ cur' = line
        /\ nLines' = nLines + 1
        /\ out' = controllerEnqueue(out, r.emit)
        /\ accumulatedToolCall' = r.tc
        /\ accumulatedArguments' = r.args
        /\ failures' = IF r.threw = "line" THEN failures \cup {"decode"}
                       ELSE failures
        /\ IF r.call # NoCall
           THEN /\ deptCalls' = Append(deptCalls, r.call)
                /\ pc' = awaitCall(r.call)
                /\ UNCHANGED streamState
           ELSE /\ UNCHANGED deptCalls
                /\ IF Escapes(r.threw)
                   THEN pc' = "done" /\ streamState' = "errored"
                   ELSE pc' = "read" /\ UNCHANGED streamState
        /\ toolCallDetected' = IF fpc \in {"turnA", "turnB"}
                               THEN detect(toolCallDetected, r)
                               ELSE toolCallDetected
        /\ UNCHANGED <<parserVars, fetchVars, formatVars>>

ProcessLine ==
    /\ \E line \in UpstreamLines : HandLine(line)
    /\ UNCHANGED logical

\* callDepartment returns the department's JSON; processLine formats the
\* completion, enqueues it under the envelope of the line it is processing,
\* resets the accumulator and returns
DepartmentReturns ==
    /\ pc = "dept"
    /\ \E completion \in Completions :
        /\ out' = controllerEnqueue(out,
                      enqueueContentChunk(nLines,
                                          formatDepartmentResponse(completion)))
        /\ failures' = IF completion.parses THEN failures
                       ELSE failures \cup {"payload"}
    /\ deptCalls' = [deptCalls EXCEPT ![Len(deptCalls)].status = "ok"]
    /\ LET r == resetAccumulator(accumulatedToolCall, accumulatedArguments)
       IN  /\ accumulatedToolCall' = r.tc
           /\ accumulatedArguments' = r.args
    /\ pc' = "read"
    /\ UNCHANGED <<parserVars, streamState, cur, nLines, logical, fetchVars,
                   toolCallDetected, formatVars>>

\* the department answers with a non-OK status: callDepartment throws, the
\* catch of processLine logs it, and processLine returns the accumulator as
\* it stands
DepartmentFails ==
    /\ pc = "dept"
    /\ failures' = failures \cup {"status"}
    /\ deptCalls' = [deptCalls EXCEPT ![Len(deptCalls)].status = "failed"]
    /\ LET r == ReturnAfterCatch(accumulatedToolCall, accumulatedArguments)
       IN  /\ accumulatedToolCall' = r.tc
           /\ accumulatedArguments' = r.args
    /\ IF Escapes("department")
       THEN pc' = "done" /\ streamState' = "errored"
       ELSE pc' = "read" /\ UNCHANGED streamState
    /\ UNCHANGED <<parserVars, out, cur, nLines, logical, fetchVars,
                   toolCallDetected, formatVars>>

\* reader.read() reports done: break, then controller.close()
StreamEnds ==
    /\ pc = "read"
    /\ pc' = "done"
    /\ streamState' = "closed"
    /\ UNCHANGED <<parserVars, accumulatedToolCall, accumulatedArguments, out,
                   cur, nLines, deptCalls, failures, logical, fetchVars,
                   toolCallDetected, formatVars>>

Next == ProcessLine \/ DepartmentReturns \/ DepartmentFails \/ StreamEnds

Spec == Init /\ [][Next]_vars

(***************************************************************************)
(* SpecAccumulator: one tool call sent from an idle accumulator.  The      *)
(* upstream picks a function name and an argument text and sends the text  *)
(* in fragments cut anywhere; the first fragment carries the name.         *)
(* (The argument text is at most MaxArgLen characters, in at most MaxLines *)
(* fragments.)                                                             *)
(***************************************************************************)
InitAccumulator ==
    /\ pc = "read"
    /\ ParserIdle
    /\ accumulatedToolCall = NoToolCall
    /\ accumulatedArguments = <<>>
    /\ out = <<>>
    /\ streamState = "open"
    /\ cur = NoLine
    /\ nLines = 0
    /\ deptCalls = <<>>
    /\ failures = {}
    /\ logical \in [name : FunctionNames, text : SeqsUpTo(ArgChars, MaxArgLen),
                    pos : {0}]
    /\ FetchIdle

\* the argument text sent so far
Sent == SubSeq(logical.text, 1, logical.pos)

\* a tool-call delta with the next k characters; only the first fragment,
\* which names the function, may come without argument text
SendFragment ==
    /\ \E k \in (IF nLines = 0 THEN 0 ELSE 1)..(Len(logical.text) - logical.pos) :
        /\ HandLine(ToolCallLine(IF nLines = 0 THEN logical.name ELSE NoName,
                                 SubSeq(logical.text, logical.pos + 1,
                                        logical.pos + k)))
        /\ logical' = [logical EXCEPT !.pos = @ + k]

NextAccumulator ==
    SendFragment \/ DepartmentReturns \/ DepartmentFails \/ StreamEnds

SpecAccumulator == InitAccumulator /\ [][NextAccumulator]_vars

(***************************************************************************)
(* SpecHybrid: the fetch handler of the hybrid revision                    *)
(* (src/unnamed/part_001).  A request is validated, then the do/while loop *)
(* calls the main chatbot, runs the turn above on the response, and, when  *)
(* the turn detected a tool call, calls again with the summarize query.    *)
(*   fpc: start, callA (line 236), turnA (244), callB (248), turnB (256),  *)
(*        returned                                                         *)
(***************************************************************************)
Summarize == "summarize the current status for the customer"

Methods == {"POST", "OPTIONS", "GET"}

MessageLists == {<<>>, <<"m1">>, <<"m1", "m2">>}

BodyThread == <<"body">>

HeaderThread == <<"header">>

\* the lb-thread-id header the n-th upstream response may carry
UpstreamThread(n) == <<"upstream", n>>

\* the empty string, as a header value
EmptyString == <<"">>

Requests ==
    [method : Methods, parses : BOOLEAN,
     messagesKind : {"missing", "notarray", "array"},
     messages : MessageLists,
     bodyThread : {NoThread, BodyThread},
     headerThread : {NoThread, HeaderThread}]

\* the requests a handler may receive: what is no array has no elements
ReceivedRequests == {r \in Requests : r.messagesKind # "array" => r.messages = <<>>}

PreflightHeaders ==
    {"Access-Control-Allow-Origin", "Access-Control-Allow-Methods",
     "Access-Control-Allow-Headers"}

SseHeaders ==
    PreflightHeaders
    \cup {"Content-Type", "Cache-Control", "Connection", "lb-thread-id"}

\* a || b on thread ids
OrElse(a, b) == IF a # NoThread THEN a ELSE b

\* the header consulted first, the body only without a header
ClientThreadHeaderFirst(req) == OrElse(req.headerThread, req.bodyThread)

\* threadId = request.headers.get('lb-thread-id') || undefined, then
\* threadId = body.threadId || threadId
ClientThread(req) == OrElse(req.bodyThread, OrElse(req.headerThread, NoThread))

\* every method is let through
NotAllowedNever(method) == FALSE

\* request.method !== 'POST'
NotAllowed(method) == method # "POST"

\* request.json() and body.messages are taken as they come
BodyErrorNone(req) == ""

\* request.json() and the check of body.messages: the message of the error
\* thrown, "" when nothing is thrown
BodyError(req) ==
    IF ~req.parses THEN "Unexpected token"
    ELSE IF req.messagesKind # "array" \/ req.messages = <<>>
         THEN "Invalid or empty messages array"
         ELSE ""

Respond(status, kind, txt, body, thread, headers) ==
    [status |-> status, kind |-> kind, text |-> txt, body |-> body,
     threadHeader |-> thread, headers |-> headers]

\* incomingMessages[incomingMessages.length - 1].content
LastContent(messages) == messages[Len(messages)]

\* Authorization: `Bearer ${env['LANGBASE_ONLINE_STORE_CUSTOMER_SERVICE_API_KEY']}`
Authorization(env) ==
    IF env.mainKey THEN "Bearer <key>" ELSE "Bearer undefined"

\* threadId = response.headers.get('lb-thread-id') || threadId, ignored
ThreadAfterStale(header, current) == current

\* threadId = response.headers.get('lb-thread-id') || threadId
ThreadAfter(header, current) == OrElse(header, current)

\* the header left out
ThreadHeaderEmpty(current) == EmptyString

\* 'lb-thread-id': threadId || ''
ThreadHeader(current) == IF current # NoThread THEN current ELSE EmptyString

\* the loop leaves on the first turn whatever it detected
EntityMain(detected) == "main"

\* entity: sharedState.toolCallDetected ? 'internal' : 'main'
Entity(detected) == IF detected THEN "internal" ELSE "main"

\* the lines the main chatbot sends in the turns of the fetch handlers
HybridLines ==
    {ContentLine, PlainLine("done"),
     ToolCallLine("call_sports_dept", <<LB, QM, RB>>),
     ToolCallLine("call_unknown_dept", <<LB>>)}

InitHybrid ==
    /\ pc = "idle"
    /\ ParserIdle
    /\ StreamIdle
    /\ FormatIdle
    /\ request \in ReceivedRequests
    /\ fpc = "start"
    /\ threadId = NoThread
    /\ upstreamCalls = <<>>
    /\ turns = <<>>
    /\ toolCallDetected = FALSE
    /\ response = NoResponse
    /\ bindings = AllBound
    /\ mainResponse = NoMainResponse
    /\ bodyRead = FALSE

\* the method, the body, the query and the thread id (index.ts lines 155-196,
\* part_001 lines 191-233); onward is where the handler goes on from
ReceiveThen(onward) ==
    /\ IF request.method = "OPTIONS"
       THEN /\ response' = Respond(200, "empty", "", <<>>, NoThread,
                                   PreflightHeaders)
            /\ fpc' = "returned"
            /\ UNCHANGED <<threadId, bodyRead>>
       ELSE IF NotAllowed(request.method)
       THEN /\ response' = Respond(405, "text", "Method Not Allowed", <<>>,
                                   NoThread, {"Access-Control-Allow-Origin"})
            /\ fpc' = "returned"
            /\ UNCHANGED <<threadId, bodyRead>>
       ELSE /\ bodyRead' = TRUE
            /\ IF BodyError(request) # ""
               THEN /\ response' =
                        Respond(400, "json", BodyError(request), <<>>, NoThread,
                                {"Content-Type", "Access-Control-Allow-Origin"})
                    /\ fpc' = "returned"
                    /\ UNCHANGED threadId
               ELSE /\ threadId' = ClientThread(request)
                    /\ fpc' = onward
                    /\ UNCHANGED response
    /\ UNCHANGED <<pc, parserVars, streamVars, formatVars, request,
                   upstreamCalls, turns, toolCallDetected, bindings,
                   mainResponse>>

\* callMainChatbot(query, threadId, env), logged with what it sent and the
\* lb-thread-id header of the answer
Called(query, header) ==
    Append(upstreamCalls,
           [query |-> query, threadId |-> threadId, header |-> header,
            authorization |-> Authorization(bindings)])

\* the read loop starts on a fresh accumulator and a fresh output stream
StartTurn ==
    /\ pc' = "read"
    /\ accumulatedToolCall' = NoToolCall
    /\ accumulatedArguments' = <<>>
    /\ out' = <<>>
    /\ streamState' = "open"
    /\ cur' = NoLine
    /\ nLines' = 0
    /\ deptCalls' = <<>>
    /\ failures' = {}
    /\ UNCHANGED logical

Receive ==
    /\ fpc = "start"
    /\ ReceiveThen("callA")

\* lines 236-244 and 248-256: callMainChatbot, the thread id of the
\* response, the check of its body, and the start of the turn
CallMainChatbot ==
    /\ fpc \in {"callA", "callB"}
    /\ Len(upstreamCalls) < MaxCalls
    /\ \E header \in {NoThread, UpstreamThread(Len(upstreamCalls) + 1)},
          hasBody \in BOOLEAN, ok \in BOOLEAN :
          /\ upstreamCalls' = Called(IF fpc = "callA"
                                     THEN LastContent(request.messages)
                                     ELSE Summarize, header)
          /\ threadId' = ThreadAfter(header, threadId)
          /\ mainResponse' = [answered |-> TRUE, ok |-> ok, hasBody |-> hasBody]
          /\ IF ~hasBody
             THEN /\ response' = Respond(500, "text", "Internal Server Error",
                                         <<>>, NoThread, {})
                  /\ fpc' = "returned"
                  /\ UNCHANGED <<pc, streamVars, toolCallDetected>>
             ELSE /\ fpc' = IF fpc = "callA" THEN "turnA" ELSE "turnB"
                  /\ StartTurn
                  /\ toolCallDetected' = FALSE
                  /\ UNCHANGED response
    /\ UNCHANGED <<parserVars, formatVars, request, turns, bindings, bodyRead>>

\* the for loop of lines 70-74 inside a turn of the fetch loop
HybridProcessLine ==
    /\ fpc \in {"turnA", "turnB"}
    /\ \E line \in HybridLines : HandLine(line)
    /\ UNCHANGED logical

\* lines 85-95, then 246, 258 and 263-273: the turn is over; either the
\* loop goes on with the next call or the handler returns the stream
TurnReturns ==
    /\ fpc \in {"turnA", "turnB"}
    /\ pc = "done"
    /\ turns' = Append(turns, toolCallDetected)
    /\ pc' = "idle"
    /\ IF Entity(toolCallDetected) = "internal"
       THEN /\ fpc' = IF fpc = "turnA" THEN "callB" ELSE "callA"
            /\ UNCHANGED response
       ELSE /\ fpc' = "returned"
            /\ response' = Respond(200, "sse", "", out, ThreadHeader(threadId),
                                   SseHeaders)
    /\ UNCHANGED <<parserVars, streamVars, formatVars, request, threadId,
                   upstreamCalls, toolCallDetected, bindings, mainResponse,
                   bodyRead>>

NextHybrid ==
    \/ Receive
    \/ CallMainChatbot
    \/ HybridProcessLine
    \/ DepartmentReturns
    \/ DepartmentFails
    \/ StreamEnds
    \/ TurnReturns

SpecHybrid == InitHybrid /\ [][NextHybrid]_vars

(***************************************************************************)
(* SpecStreaming: the fetch handler of the streaming revision              *)
(* (src/src/index.ts lines 150-219).  A request is validated, the main     *)
(* chatbot is called once, and the response is returned at once with the   *)
(* output stream of the turn as its body; the turn runs on while the       *)
(* client reads.                                                           *)
(*   fpc: start, call (line 200), streaming, returned                      *)
(***************************************************************************)
InitStreaming ==
    /\ pc = "idle"
    /\ ParserIdle
    /\ StreamIdle
    /\ FormatIdle
    /\ request \in ReceivedRequests
    /\ fpc = "start"
    /\ threadId = NoThread
    /\ upstreamCalls = <<>>
    /\ turns = <<>>
    /\ toolCallDetected = FALSE
    /\ response = NoResponse
    /\ bindings \in [mainKey : BOOLEAN]
    /\ mainResponse = NoMainResponse
    /\ bodyRead = FALSE

ReceiveStreaming ==
    /\ fpc = "start"
    /\ ReceiveThen("call")

\* lines 200-218: callMainChatbot, the thread id of the response,
\* processMainChatbotResponse up to the stream it returns, and the Response.
\* Without a body response.body!.getReader() throws, nothing catches it and
\* the handler's promise rejects.
CallMainChatbotStreaming ==
    /\ fpc = "call"
    /\ \E header \in {NoThread, UpstreamThread(1)},
          hasBody \in BOOLEAN, ok \in BOOLEAN :
          /\ upstreamCalls' = Called(LastContent(request.messages), header)
          /\ threadId' = ThreadAfter(header, threadId)
          /\ mainResponse' = [answered |-> TRUE, ok |-> ok, hasBody |-> hasBody]
          /\ IF ~hasBody
             THEN /\ response' = Respond(500, "uncaught", "TypeError", <<>>,
                                         NoThread, {})
                  /\ fpc' = "returned"
                  /\ UNCHANGED <<pc, streamVars>>
             ELSE /\ response' = Respond(200, "sse", "", <<>>,
                                         ThreadHeader(ThreadAfter(header, threadId)),
                                         SseHeaders)
                  /\ fpc' = "streaming"
                  /\ StartTurn
    /\ UNCHANGED <<parserVars, formatVars, request, turns, toolCallDetected,
                   bindings, bodyRead>>

\* the for loop of lines 54-58 behind the response already returned
StreamingProcessLine ==
    /\ fpc = "streaming"
    /\ \E line \in HybridLines : HandLine(line)
    /\ UNCHANGED logical

NextStreaming ==
    \/ ReceiveStreaming
    \/ CallMainChatbotStreaming
    \/ StreamingProcessLine
    \/ DepartmentReturns
    \/ DepartmentFails
    \/ StreamEnds

SpecStreaming == InitStreaming /\ [][NextStreaming]_vars

(***************************************************************************)
(* SpecFormat: formatDepartmentResponse applied to a completion payload.   *)
(***************************************************************************)
InitFormat ==
    /\ pc = "format"
    /\ ParserIdle
    /\ StreamIdle
    /\ request = NoRequest
    /\ fpc = "none"
    /\ threadId = NoThread
    /\ upstreamCalls = <<>>
    /\ turns = <<>>
    /\ toolCallDetected = FALSE
    /\ response = NoResponse
    /\ bindings = AllBound
    /\ mainResponse = NoMainResponse
    /\ bodyRead = FALSE
    /\ payload \in Payloads
    /\ rendered = <<>>
    /\ data = NoEvent
    /\ chunk = NoChunk
    /\ SingleIdle

FormatCompletion ==
    /\ pc = "format"
    /\ rendered' = formatDepartmentResponse(payload)
    /\ pc' = "done"
    /\ UNCHANGED <<parserVars, streamVars, fetchVars, toolCallDetected, payload,
                   data, chunk, singleVars>>

NextFormat == FormatCompletion

SpecFormat == InitFormat /\ [][NextFormat]_vars

(***************************************************************************)
(* SpecEnvelope: enqueueContentChunk applied to one parsed upstream event, *)
(* by the streaming revision or by the hybrid revision.                    *)
(***************************************************************************)
InitEnvelope ==
    /\ pc = "envelope"
    /\ ParserIdle
    /\ StreamIdle
    /\ request = NoRequest
    /\ fpc = "none"
    /\ threadId = NoThread
    /\ upstreamCalls = <<>>
    /\ turns = <<>>
    /\ toolCallDetected = FALSE
    /\ response = NoResponse
    /\ bindings = AllBound
    /\ mainResponse = NoMainResponse
    /\ bodyRead = FALSE
    /\ payload = PlainCompletion
    /\ rendered = <<>>
    /\ data \in Events
    /\ chunk = NoChunk
    /\ SingleIdle

\* the content enqueued: a content delta, or a formatted department answer
EnvelopeContents == {Hello} \cup {formatDepartmentResponse(c) : c \in Completions}

EnqueueStreaming ==
    /\ pc = "envelope"
    /\ \E content \in EnvelopeContents : chunk' = chunkOf(data, content)
    /\ pc' = "streaming"
    /\ UNCHANGED <<parserVars, streamVars, fetchVars, toolCallDetected, payload,
                   rendered, data, singleVars>>

EnqueueHybrid ==
    /\ pc = "envelope"
    /\ \E content \in EnvelopeContents : chunk' = chunkOfHybrid(data, content)
    /\ pc' = "hybrid"
    /\ UNCHANGED <<parserVars, streamVars, fetchVars, toolCallDetected, payload,
                   rendered, data, singleVars>>

NextEnvelope == EnqueueStreaming \/ EnqueueHybrid

SpecEnvelope == InitEnvelope /\ [][NextEnvelope]_vars

(***************************************************************************)
(* SpecSingleShot: the single-shot revisions.  The upstream answer is      *)
(* taken whole; the handler starts from the stream 'No response            *)
(* generated.', walks over message.tool_calls, and returns the stream it   *)
(* holds at the end.  callDepartment of these revisions returns a stream:  *)
(* the bytes of the department's response, or a text for a non-OK status.  *)
(*   fpc: loop (head of the for loop, or the if of lines 424 and 441),     *)
(*        await (callDepartment in flight), returned, threw                *)
(***************************************************************************)
\* the argument texts of a tool call: an object with customerQuery, an
\* object without it, and text that is not JSON
SingleArguments == {<<LB, QM, RB>>, <<LB, RB>>, <<LB>>}

ToolCalls ==
    [name : KnownFunctions \cup {"call_unknown_dept"}, arguments : SingleArguments]

\* rawData.choices[0].message of the upstream answer
AssistantMessages ==
    {[content |-> c, tool_calls |-> <<>>] : c \in {Null, "Hello"}}
    \cup {[content |-> Null, tool_calls |-> t] :
              t \in SeqsUpTo(ToolCalls, MaxToolCalls) \ {<<>>}}

\* what the department's fetch resolves with
DepartmentReplies ==
    {[ok |-> TRUE, status |-> 200, statusText |-> "OK"],
     [ok |-> FALSE, status |-> 500, statusText |-> "Internal Server Error"],
     [ok |-> FALSE, status |-> 429, statusText |-> "Too Many Requests"]}

Digit(d) ==
    CASE d = 0 -> "0" [] d = 1 -> "1" [] d = 2 -> "2" [] d = 3 -> "3"
      [] d = 4 -> "4" [] d = 5 -> "5" [] d = 6 -> "6" [] d = 7 -> "7"
      [] d = 8 -> "8" [] d = 9 -> "9"

\* ${response.status}: the decimal digits of the number
RECURSIVE Decimal(_)
Decimal(n) ==
    IF n < 10 THEN <<Digit(n)>> ELSE Append(Decimal(n \div 10), Digit(n % 10))

\* a chunk of a response stream: plain text, an SSE data frame, or the
\* bytes of the response of department call number call
TextChunk(txt) == [kind |-> "text", text |-> txt, call |-> 0]

DataChunk(txt) == [kind |-> "data", text |-> txt, call |-> 0]

ForwardedChunk(call) == [kind |-> "forward", text |-> <<>>, call |-> call]

\* the initial responseStream
NoResponseGenerated == <<TextChunk(<<"No response generated.">>)>>

\* the failure wrapped as an SSE data frame and ended with the sentinel
errorStreamFramed(reply) ==
    <<DataChunk(<<"Error: ">> \o Decimal(reply.status) \o <<" ", reply.statusText>>),
      DataChunk(<<"[DONE]">>)>>

\* if (!response.ok): one chunk `Error: ${response.status}
\* ${response.statusText}`, then close
errorStream(reply) ==
    <<TextChunk(<<"Error: ">> \o Decimal(reply.status) \o <<" ", reply.statusText>>)>>

\* the stream callDepartment returns for call number call
departmentStream(reply, call) ==
    IF reply.ok THEN <<ForwardedChunk(call)>> ELSE errorStream(reply)

\* the switch on functionName: the credential key of a case, or none
SwitchKey(functionName) ==
    IF functionName \in KnownFunctions THEN departmentMap[functionName] ELSE Null

\* assistantMessage.content || 'Sorry, I couldn\'t process your request.'
ContentOrApology(content) ==
    IF content # Null THEN content ELSE "Sorry, I couldn't process your request."

InitSingleShot ==
    /\ pc = "single"
    /\ ParserIdle
    /\ StreamIdle
    /\ request = NoRequest
    /\ fpc = "loop"
    /\ threadId = NoThread
    /\ upstreamCalls = <<>>
    /\ turns = <<>>
    /\ toolCallDetected = FALSE
    /\ response = NoResponse
    /\ bindings = AllBound
    /\ mainResponse = NoMainResponse
    /\ bodyRead = FALSE
    /\ payload = PlainCompletion
    /\ rendered = <<>>
    /\ data = NoEvent
    /\ chunk = NoChunk
    /\ assistantMessage \in AssistantMessages
    /\ nextToolCall = 1
    /\ responseStream = NoResponseGenerated

\* what no action of the single-shot handler touches
SingleUntouched ==
    UNCHANGED <<pc, parserVars, accumulatedToolCall, accumulatedArguments, out,
                streamState, cur, nLines, failures, logical, request, threadId,
                upstreamCalls, turns, toolCallDetected, bindings, mainResponse,
                bodyRead, payload, rendered, data, chunk, assistantMessage>>

\* one pass of the for loop up to the switch: JSON.parse of the arguments,
\* which throws out of the handler on text that is not JSON; a known name
\* calls its department and waits, any other name goes to the next call
TakeToolCall ==
    /\ fpc = "loop"
    /\ nextToolCall <= Len(assistantMessage.tool_calls)
    /\ LET toolCall     == assistantMessage.tool_calls[nextToolCall]
           functionArgs == JSONparse(toolCall.arguments)
           deptKey      == SwitchKey(toolCall.name)
       IN  IF functionArgs.threw
           THEN /\ fpc' = "threw"
                /\ UNCHANGED <<deptCalls, nextToolCall>>
           ELSE IF deptKey # Null
           THEN /\ deptCalls' = Append(deptCalls,
                                       [deptKey       |-> deptKey,
                                        customerQuery |-> functionArgs.customerQuery,
                                        arguments     |-> toolCall.arguments,
                                        env           |-> nextToolCall,
                                        status        |-> "pending"])
                /\ fpc' = "await"
                /\ UNCHANGED nextToolCall
           ELSE /\ nextToolCall' = nextToolCall + 1
                /\ UNCHANGED <<deptCalls, fpc>>
    /\ UNCHANGED <<response, responseStream>>
    /\ SingleUntouched

\* callDepartment resolves with a stream, whatever the status of the
\* department, and the stream is assigned to responseStream
DepartmentStreamReturns ==
    /\ fpc = "await"
    /\ \E reply \in DepartmentReplies :
        /\ responseStream' = departmentStream(reply, Len(deptCalls))
        /\ deptCalls' = [deptCalls EXCEPT ![Len(deptCalls)].status =
                            IF reply.ok THEN "ok" ELSE "failed"]
    /\ nextToolCall' = nextToolCall + 1
    /\ fpc' = "loop"
    /\ UNCHANGED response
    /\ SingleUntouched

\* no tool calls: the else branch of lines 441-450 frames the content, and
\* the handler returns
ReturnContent ==
    /\ fpc = "loop"
    /\ assistantMessage.tool_calls = <<>>
    /\ LET stream == <<DataChunk(<<ContentOrApology(assistantMessage.content)>>)>>
       IN  /\ responseStream' = stream
           /\ response' = Respond(200, "sse", "", stream, ThreadHeader(threadId),
                                  SseHeaders)
    /\ fpc' = "returned"
    /\ UNCHANGED <<deptCalls, nextToolCall>>
    /\ SingleUntouched

\* the for loop is over: return new Response(responseStream, ...)
ReturnStream ==
    /\ fpc = "loop"
    /\ assistantMessage.tool_calls # <<>>
    /\ nextToolCall > Len(assistantMessage.tool_calls)
    /\ response' = Respond(200, "sse", "", responseStream, ThreadHeader(threadId),
                           SseHeaders)
    /\ fpc' = "returned"
    /\ UNCHANGED <<deptCalls, nextToolCall, responseStream>>
    /\ SingleUntouched

NextSingleShot ==
    TakeToolCall \/ DepartmentStreamReturns \/ ReturnContent \/ ReturnStream

SpecSingleShot == InitSingleShot /\ [][NextSingleShot]_vars

(***************************************************************************)
(* Properties.                                                             *)
(***************************************************************************)
Indices(s) == 1..Len(s)

\* C1 (SpecParser): however the upstream text is cut into chunks, the lines
\* handed to processLine so far, and the carry-over, are those of the text
\* delivered so far arriving as one chunk: no line lost, duplicated or
\* reordered.
C1_ChunkBoundaryInvariance ==
    LET single == ReadChunkStep(<<>>, SubSeq(text, 1, pos))
    IN  handed = single.lines /\ buffer = single.buffer

\* C1: the text is read to its end in several chunks, one of which ended in
\* the middle of a line that a later chunk completed, and two lines or more
\* were handed on.
C1_Witness ==
    /\ pc = "done"
    /\ Len(handed) >= 2
    /\ \E p \in chunkEnds :
        /\ p < Len(text)
        /\ text[p] # NL
        /\ \E j \in (p + 1)..Len(text) : text[j] = NL

\* what callDepartment is called with: the credential key, the customer
\* query and the argument text it was parsed from
Pair(call) ==
    [deptKey       |-> call.deptKey,
     customerQuery |-> call.customerQuery,
     arguments     |-> call.arguments]

\* the calls made when the argument text t arrives in one fragment at an
\* idle accumulator
OneShotCalls(name, t) ==
    LET r == processLine(ToolCallLine(name, t), 1, NoToolCall, <<>>)
    IN  IF r.call = NoCall THEN <<>> ELSE <<r.call>>

\* the same dispatch: a call is made in one case exactly if one is made in the
\* other, and every call made carries the pair of the one-fragment delivery
SameResolution(calls, oneShot) ==
    /\ (calls = <<>>) = (oneShot = <<>>)
    /\ \A i \in Indices(calls) : Pair(calls[i]) = Pair(oneShot[1])

C3_NoDispatchWithoutValidJSON ==
    /\ \A i \in Indices(deptCalls) : IsValidJSON(deptCalls[i].arguments)
    /\ streamState # "errored"
    /\ pc = "done" => streamState = "closed"

\* C3: the stream has ended and is closed while a call to a known function is
\* still pending with a buffer that ends with "}" and is not valid JSON; no
\* department was called.
C3_Witness ==
    /\ pc = "done" /\ streamState = "closed"
    /\ accumulatedToolCall.present
    /\ accumulatedToolCall.name \in KnownFunctions
    /\ EndsWith(accumulatedArguments, RB)
    /\ ~IsValidJSON(accumulatedArguments)
    /\ deptCalls = <<>>

\* C4 (Spec): when a department call failed and the upstream then ended with
\* its [DONE] line, the output holds a content frame for the line whose
\* department call failed and ends with the [DONE] frame.
C4_DepartmentFailureReported ==
    (pc = "done" /\ cur.kind = "done")
        => /\ \A i \in Indices(deptCalls) :
                deptCalls[i].status = "failed"
                    => \E j \in Indices(out) :
                          out[j].kind = "content" /\ out[j].env = deptCalls[i].env
           /\ out[Len(out)] = DoneFrame

\* C5 (Spec): when the stream is closed, the output holds the [DONE] frame
\* exactly once, as its last frame.
C5_DoneExactlyOnceAndLast ==
    (pc = "done" /\ streamState = "closed")
        => /\ Cardinality({i \in Indices(out) : out[i] = DoneFrame}) = 1
           /\ out[Len(out)] = DoneFrame

\* the pending name and argument text once the fragment of the line being
\* handed over is taken in
NameWith(line) ==
    IF accumulatedToolCall.present THEN accumulatedToolCall.name ELSE line.name

ArgumentsWith(line) ==
    IF accumulatedToolCall.present THEN accumulatedArguments \o line.arguments
    ELSE line.arguments

\* C9 (Spec): a tool-call line that completes a call (the argument text is
\* valid JSON ending with "}") to a function that is none of the three known
\* ones calls no department, writes no frame and raises no error; and the
\* three known names map to three distinct credential keys.
C9_UnknownFunctionIgnored ==
    /\ [][(/\ nLines' = nLines + 1
           /\ cur'.kind = "toolcall"
           /\ NameWith(cur') \notin KnownFunctions \cup {NoName}
           /\ EndsWith(ArgumentsWith(cur'), RB)
           /\ IsValidJSON(ArgumentsWith(cur')))
          => (/\ deptCalls' = deptCalls
              /\ out' = out
              /\ failures' = failures
              /\ pc' = "read"
              /\ streamState' = "open")]_vars
    /\ [](\A m, n \in KnownFunctions :
            /\ getDepartmentKey(n) # Null
            /\ m # n => getDepartmentKey(m) # getDepartmentKey(n))

\* C10 (Spec): whatever recoverable failures occurred, no error leaves the
\* read loop; a content delta handed over after a failure is the last frame
\* of the output; content frames stand in the order of their lines; and once
\* the loop is left the output stream is closed.
C10_KeepsStreamingAfterFailure ==
    /\ streamState # "errored"
    /\ pc = "done" => streamState = "closed"
    /\ (failures # {} /\ cur.kind = "content")
            => /\ Len(out) > 0
               /\ out[Len(out)] = [kind |-> "content", env |-> nLines,
                                   content |-> cur.content]
    /\ \A i, j \in Indices(out) :
            (i < j /\ out[i].kind = "content" /\ out[j].kind = "content")
                => out[i].env < out[j].env

\* C10: a malformed line and a failed department call have both occurred, a
\* content delta came after them, and the stream has ended.
C10_Witness ==
    /\ pc = "done" /\ streamState = "closed"
    /\ {"decode", "status"} \subseteq failures
    /\ cur.kind = "content"
    /\ out # <<>>

\* C6: in the fetch loop of the hybrid revision, after every turn that
\* detected a tool call one more upstream call is issued before the request
\* returns; that call carries the thread id in effect after the turn (the
\* lb-thread-id of the turn's response, else the id sent with it); a stream is
\* returned only once the response of that call has been run through the inner
\* loop as a further turn, so the loop repeats until a turn detects no tool
\* call.
C6_LoopCallsAgainAfterToolTurn ==
    \A k \in Indices(turns) :
        turns[k] =>
            /\ fpc = "returned" => Len(upstreamCalls) > k
            /\ Len(upstreamCalls) > k =>
                   upstreamCalls[k + 1].threadId =
                       IF upstreamCalls[k].header # NoThread
                       THEN upstreamCalls[k].header
                       ELSE upstreamCalls[k].threadId
            /\ response.kind = "sse" => Len(turns) > k

\* C6: a stream is returned after three turns, the first two with a tool
\* call; the first response carried a thread id, the second none, and the
\* third call carried the id of the first response.
C6_Witness ==
    /\ response.kind = "sse"
    /\ Len(turns) = 3
    /\ turns[1] /\ turns[2]
    /\ upstreamCalls[1].header # NoThread
    /\ upstreamCalls[2].header = NoThread
    /\ upstreamCalls[3].threadId = upstreamCalls[1].header

\* C7: the hybrid revision returns its SSE response with status 200, only
\* after a turn that detected no tool call, and with exactly the frames of
\* that last turn as body; no SSE response is returned while every turn so
\* far detected a tool call.
C7_ReturnsTheLastTurnWithoutToolCall ==
    response.kind = "sse" =>
        /\ response.status = 200
        /\ fpc = "returned"
        /\ turns # <<>>
        /\ ~turns[Len(turns)]
        /\ \E k \in Indices(turns) : ~turns[k]
        /\ response.body = out

\* C7: a stream with a content frame is returned after a turn with a tool
\* call and a later one without.
C7_Witness ==
    /\ response.kind = "sse"
    /\ Len(turns) >= 2
    /\ turns[1]
    /\ \E i \in Indices(response.body) : response.body[i].kind = "content"

\* C8: within one request of the hybrid revision the first upstream call
\* carries the content of the last request message and every later call
\* carries the summarize text, so the caller's message goes upstream once.
C8_CallerMessageSentOnce ==
    /\ \A k \in Indices(upstreamCalls) :
           upstreamCalls[k].query =
               IF k = 1 THEN request.messages[Len(request.messages)]
               ELSE Summarize
    /\ Cardinality({k \in Indices(upstreamCalls) :
                       upstreamCalls[k].query # Summarize}) <= 1

\* C11 (SpecFormat): for a completion that parses as a JSON object with at
\* least one member, formatDepartmentResponse returns the key and the value
\* of the first member written, with one blank between them; for a
\* completion that does not parse as JSON it returns the completion itself.
C11_FirstPairOnly ==
    pc = "done" =>
        /\ (payload.parses /\ payload.members # <<>>)
               => rendered = <<payload.members[1].key, " ",
                               TemplateString(payload.members[1].value)>>
        /\ ~payload.parses => rendered = <<payload.raw>>

\* the thread id the client supplied: the body's, else the header's
SuppliedThread ==
    IF request.bodyThread # NoThread THEN request.bodyThread
    ELSE request.headerThread

\* the lb-thread-id header most recently returned by an upstream call
LatestUpstreamThread ==
    LET S == {k \in Indices(upstreamCalls) : upstreamCalls[k].header # NoThread}
    IN  IF S = {} THEN NoThread
        ELSE upstreamCalls[CHOOSE k \in S : \A l \in S : l <= k].header

\* C12 as stated (SpecHybrid): the lb-thread-id header of the SSE response
\* is the lb-thread-id header of the last upstream call if that call returned
\* one, else the thread id the client supplied, else the empty string.
C12_ThreadHeaderOfLastCall ==
    response.kind = "sse" =>
        response.threadHeader =
            IF upstreamCalls[Len(upstreamCalls)].header # NoThread
            THEN upstreamCalls[Len(upstreamCalls)].header
            ELSE IF SuppliedThread # NoThread THEN SuppliedThread
            ELSE EmptyString

\* C12 amended (SpecHybrid): the lb-thread-id header of the SSE response is
\* the lb-thread-id header most recently returned by an upstream call of the
\* request if any call returned one, else the thread id the client supplied,
\* else the empty string.
C12_ThreadHeaderOfLatestReturned ==
    response.kind = "sse" =>
        response.threadHeader =
            IF LatestUpstreamThread # NoThread THEN LatestUpstreamThread
            ELSE IF SuppliedThread # NoThread THEN SuppliedThread
            ELSE EmptyString

\* C12: a stream is returned after two upstream calls of which only the
\* first returned a thread id, to a client that had supplied another.
C12_Witness ==
    /\ response.kind = "sse"
    /\ Len(upstreamCalls) = 2
    /\ upstreamCalls[1].header # NoThread
    /\ upstreamCalls[2].header = NoThread
    /\ SuppliedThread # NoThread
    /\ response.threadHeader = upstreamCalls[1].header

\* C13 (SpecStreaming): the first upstream call carries the threadId of the
\* request body if there is one, else the lb-thread-id request header, else
\* none.
C13_BodyThreadTakesPrecedence ==
    upstreamCalls # <<>> =>
        upstreamCalls[1].threadId =
            IF request.bodyThread # NoThread THEN request.bodyThread
            ELSE IF request.headerThread # NoThread THEN request.headerThread
            ELSE NoThread

\* C13: a call was made for a request carrying a thread id in the body and
\* another in the header.
C13_Witness ==
    /\ upstreamCalls # <<>>
    /\ request.bodyThread = BodyThread
    /\ request.headerThread = HeaderThread
    /\ upstreamCalls[1].threadId = BodyThread

\* the body is no JSON, or its messages are missing, no array or empty
InvalidBody ==
    \/ ~request.parses
    \/ request.messagesKind # "array"
    \/ request.messages = <<>>

\* C14 (SpecStreaming): a POST whose body is invalid is answered with status
\* 400 and a JSON body carrying an error message, and no upstream or
\* department call is made.
C14_InvalidBodyIs400 ==
    (request.method = "POST" /\ InvalidBody /\ fpc # "start")
        => /\ fpc = "returned"
           /\ response.status = 400
           /\ response.kind = "json"
           /\ response.text # ""
           /\ upstreamCalls = <<>>
           /\ deptCalls = <<>>

\* C14: a POST with an empty messages array has been answered.
C14_Witness ==
    /\ request.method = "POST"
    /\ request.parses
    /\ request.messagesKind = "array"
    /\ request.messages = <<>>
    /\ response.status = 400
    /\ response.text = "Invalid or empty messages array"

\* C15 (SpecStreaming): a request that is neither POST nor OPTIONS is
\* answered with status 405 and the text Method Not Allowed; an OPTIONS
\* request is answered with an empty body and the CORS headers; in both cases
\* the body is not read and no upstream or department call is made.
C15_MethodNotAllowedAndPreflight ==
    (request.method # "POST" /\ fpc # "start")
        => /\ fpc = "returned"
           /\ ~bodyRead
           /\ upstreamCalls = <<>>
           /\ deptCalls = <<>>
           /\ IF request.method = "OPTIONS"
              THEN /\ response.kind = "empty"
                   /\ response.text = "" /\ response.body = <<>>
                   /\ {"Access-Control-Allow-Origin",
                       "Access-Control-Allow-Methods",
                       "Access-Control-Allow-Headers"} \subseteq response.headers
              ELSE /\ response.status = 405
                   /\ response.kind = "text"
                   /\ response.text = "Method Not Allowed"

\* C15: a GET has been answered with 405.
C15_Witness ==
    /\ request.method = "GET"
    /\ request.parses /\ request.messages # <<>>
    /\ response.status = 405

\* C16 (SpecHybrid): when the main chatbot answered without a body or with a
\* non-OK status, the request is over, answered with status 500 and a plain
\* text, and no turn, hence no department call, is run on that answer.
C16_UpstreamUnavailableIs500 ==
    (mainResponse.answered /\ (~mainResponse.ok \/ ~mainResponse.hasBody))
        => /\ fpc = "returned"
           /\ response.status = 500
           /\ response.kind = "text"

\* C17 (SpecStreaming): when the credential of the main chatbot is not
\* bound, no upstream call is made, and a POST with a valid body is answered
\* with status 500 and a plain text.
C17_MissingCredentialIs500 ==
    ~bindings.mainKey
        => /\ upstreamCalls = <<>>
           /\ (request.method = "POST" /\ ~InvalidBody /\ fpc # "start")
                  => /\ fpc = "returned"
                     /\ response.status = 500
                     /\ response.kind = "text"

\* C18 (Spec): a tool-call line that leaves a known function's argument text
\* ending with "}" and valid JSON calls the department once, with the key of
\* that function and the customerQuery of the parsed text; and when
\* processLine has gone on after the call, the accumulator is idle.
C18_DispatchOnceThenIdle ==
    /\ [][(/\ nLines' = nLines + 1
           /\ cur'.kind = "toolcall"
           /\ NameWith(cur') \in KnownFunctions
           /\ EndsWith(ArgumentsWith(cur'), RB)
           /\ IsValidJSON(ArgumentsWith(cur')))
          => (/\ pc' = "dept"
              /\ Len(deptCalls') = Len(deptCalls) + 1
              /\ SubSeq(deptCalls', 1, Len(deptCalls)) = deptCalls
              /\ Pair(deptCalls'[Len(deptCalls')]) =
                     [deptKey       |-> departmentMap[NameWith(cur')],
                      customerQuery |-> JSONparse(ArgumentsWith(cur')).customerQuery,
                      arguments     |-> ArgumentsWith(cur')])]_vars
    /\ [][(pc = "dept" /\ pc' # "dept")
          => (/\ Len(deptCalls') = Len(deptCalls)
              /\ accumulatedToolCall' = NoToolCall
              /\ accumulatedArguments' = <<>>)]_vars

\* what a tool-call line leaves when the argument text ends with "}" and is
\* not valid JSON: the call pending with the whole text, nothing dispatched
\* or written, the loop running
RetainedBy(line) ==
    /\ accumulatedToolCall'.present
    /\ accumulatedToolCall'.name = NameWith(line)
    /\ accumulatedArguments' = ArgumentsWith(line)
    /\ deptCalls' = deptCalls
    /\ out' = out
    /\ pc' = "read"
    /\ streamState' = "open"

C20_NewNameOverwrites ==
    [][(/\ nLines' = nLines + 1
        /\ accumulatedToolCall.present
        /\ cur'.kind = "toolcall"
        /\ cur'.name \notin {NoName, accumulatedToolCall.name}
        /\ ~EndsWith(cur'.arguments, RB))
       => (/\ accumulatedToolCall'.present
           /\ accumulatedToolCall'.name = cur'.name
           /\ accumulatedArguments' = cur'.arguments)]_vars


(***************************************************************************)
(* C21 (Spec).  Once a line data: [DONE] has been handed to processLine    *)
(* and forwarded, parsing stops for the stream: no later line adds an      *)
(* output frame or a department call, and a pending tool call is           *)
(* discarded.                                                              *)
(***************************************************************************)
DoneSeen == \E i \in 1..Len(out) : out[i] = DoneFrame

C21_ParsingStopsAfterDone ==
    /\ [][DoneSeen => /\ out' = out
                      /\ Len(deptCalls') = Len(deptCalls)]_vars
    /\ [](DoneSeen => accumulatedToolCall = NoToolCall)

(***************************************************************************)
(* C22 (Spec).  Output frames appear in the order of the upstream lines    *)
(* that produced them: every step only adds frames at the end of the       *)
(* output, content frames carry strictly increasing line positions, and    *)
(* the frame with a department's result stands at the position of the line *)
(* that completed the tool call, after the frames of earlier lines and     *)
(* before the frames of later lines.                                       *)
(***************************************************************************)
IsPrefix(s, t) == Len(s) <= Len(t) /\ SubSeq(t, 1, Len(s)) = s

ContentFrames == {i \in 1..Len(out) : out[i].kind = "content"}

C22_FramesInUpstreamOrder ==
    /\ [][IsPrefix(out, out')]_vars
    /\ [][(pc = "dept" /\ Len(out') > Len(out))
            => /\ out' = Append(out, out'[Len(out')])
               /\ out'[Len(out')].kind = "content"
               /\ out'[Len(out')].env = deptCalls[Len(deptCalls)].env
               /\ nLines' = nLines]_vars
    /\ [](\A i, j \in ContentFrames : i < j => out[i].env < out[j].env)
    /\ [](\A k \in 1..Len(deptCalls) :
            deptCalls[k].status = "ok" =>
                \E j \in ContentFrames :
                    /\ out[j].env = deptCalls[k].env
                    /\ \A i \in ContentFrames :
                        /\ i < j => out[i].env < deptCalls[k].env
                        /\ i > j => out[i].env > deptCalls[k].env)

\* a content line, then a tool call answered by its department, then a
\* content line: three frames
C22_Witness ==
    /\ Len(out) = 3
    /\ Len(deptCalls) = 1
    /\ deptCalls[1].status = "ok"
    /\ deptCalls[1].env = 2
    /\ out[2].env = 2
    /\ out[1].env = 1
    /\ out[3].env = 3

(***************************************************************************)
(* C23 (Spec).  Between the first fragment of a tool call and its          *)
(* resolution no content frame is written: a content delta that the        *)
(* upstream sends while a tool call is pending is held back.               *)
(***************************************************************************)
C23_ContentSuspendedWhilePending ==
    [][(accumulatedToolCall.present /\ pc = "read")
         => \A i \in (Len(out) + 1)..Len(out') : out'[i].kind # "content"]_vars


(***************************************************************************)
(* C24 (Spec).  At most one department call is in flight at any time, it   *)
(* is the last one made, and the read loop stands still exactly while it   *)
(* is in flight: no line is handed to processLine and nothing is read; the *)
(* step that ends the call, by a return or a failure, leaves no call in    *)
(* flight and puts the loop back to reading.                               *)
(***************************************************************************)
InFlight(calls) == {k \in 1..Len(calls) : calls[k].status = "pending"}

C24_OneDepartmentCallInFlight ==
    /\ [](/\ Cardinality(InFlight(deptCalls)) <= 1
          /\ InFlight(deptCalls) # {} <=> pc = "dept"
          /\ InFlight(deptCalls) \subseteq {Len(deptCalls)})
    /\ [][pc = "dept" => /\ nLines' = nLines
                         /\ cur' = cur
                         /\ parserVars' = parserVars
                         /\ Len(deptCalls') = Len(deptCalls)
                         /\ InFlight(deptCalls') = {}
                         /\ pc' = "read"]_vars

\* a second call is in flight after the first one failed or returned
C24_Witness ==
    /\ pc = "dept"
    /\ Len(deptCalls) = 2
    /\ deptCalls[1].status \in {"ok", "failed"}
    /\ deptCalls[2].status = "pending"

(***************************************************************************)
(* C26 (Spec).  A line that is not a data line, a data line whose JSON     *)
(* does not parse and a data event without choices or delta each add no    *)
(* frame, make no department call, raise no error and leave the pending    *)
(* call and its argument text as they were.                                *)
(***************************************************************************)
SkippedKinds == {"nondata", "empty", "badjson", "nodelta"}

C26_SkippedLinesChangeNothing ==
    [][(nLines' = nLines + 1 /\ cur'.kind \in SkippedKinds)
         => /\ out' = out
            /\ deptCalls' = deptCalls
            /\ accumulatedToolCall' = accumulatedToolCall
            /\ accumulatedArguments' = accumulatedArguments
            /\ streamState' = "open"
            /\ pc' = "read"]_vars

\* such a line has been processed while a tool call was pending with text
C26_Witness ==
    /\ cur.kind \in {"nondata", "nodelta"}
    /\ accumulatedToolCall.present
    /\ accumulatedArguments # <<>>
    /\ "decode" \in failures
    /\ pc = "read"

(***************************************************************************)
(* C27 (Spec).  When callDepartment throws, the pending call and the       *)
(* argument text stay as they were after the completing fragment was       *)
(* appended, and a later fragment appends to that same text (and may so    *)
(* call the department again for the same tool call).                      *)
(***************************************************************************)
C27_DepartmentFailureKeepsAccumulator ==
    /\ [][(pc = "dept" /\ deptCalls'[Len(deptCalls)].status = "failed")
            => /\ accumulatedToolCall' = accumulatedToolCall
               /\ accumulatedToolCall'.present
               /\ accumulatedArguments' = deptCalls[Len(deptCalls)].arguments
               /\ out' = out]_vars
    /\ [][(/\ nLines' = nLines + 1
           /\ cur'.kind = "toolcall"
           /\ deptCalls # <<>>
           /\ deptCalls[Len(deptCalls)].status = "failed"
           /\ accumulatedToolCall.present
           /\ accumulatedToolCall'.present)
            => accumulatedArguments'
                   = accumulatedArguments \o cur'.arguments]_vars

\* the department was called again with the same argument text after the
\* first call had failed
C27_Witness ==
    /\ Len(deptCalls) = 2
    /\ deptCalls[1].status = "failed"
    /\ deptCalls[2].deptKey = deptCalls[1].deptKey
    /\ deptCalls[2].arguments = deptCalls[1].arguments
    /\ deptCalls[2].env > deptCalls[1].env

(***************************************************************************)
(* C28 (Spec).  A pending call that was started by a fragment without a    *)
(* function name never gets a name: it stays pending without a name and    *)
(* no department is called, whatever the later fragments carry.            *)
(***************************************************************************)
Nameless == accumulatedToolCall.present /\ accumulatedToolCall.name = NoName

C28_NamelessCallNeverDispatches ==
    [][Nameless => /\ accumulatedToolCall' = accumulatedToolCall
                   /\ deptCalls' = deptCalls
                   /\ pc' # "dept"]_vars

\* a nameless pending call whose text is complete JSON, after a fragment
\* that names a known function
C28_Witness ==
    /\ Nameless
    /\ cur.kind = "toolcall"
    /\ cur.name \in KnownFunctions
    /\ nLines >= 2
    /\ EndsWith(accumulatedArguments, RB)
    /\ IsValidJSON(accumulatedArguments)
    /\ deptCalls = <<>>

(***************************************************************************)
(* C29 (SpecHybrid).  toolCallDetected is false when a turn starts; within *)
(* the turn every line sets it exactly when it is a tool-call delta        *)
(* without content, and nothing clears it; it is read only when the turn   *)
(* is over and the stream closed.                                          *)
(***************************************************************************)
InTurn(f) == f \in {"turnA", "turnB"}

C29_ToolCallDetectedLatches ==
    /\ [][IF ~InTurn(fpc) /\ InTurn(fpc')
          THEN ~toolCallDetected'
          ELSE IF nLines' = nLines + 1
               THEN toolCallDetected'
                        = (toolCallDetected \/ cur'.kind = "toolcall")
               ELSE toolCallDetected' = toolCallDetected]_vars
    /\ [][turns' # turns => /\ pc = "done"
                            /\ streamState = "closed"
                            /\ turns' = Append(turns, toolCallDetected)]_vars

\* a turn is over with the flag set by a fragment of an unknown function
\* that was never dispatched, and a content line came after it
C29_Witness ==
    /\ pc = "idle"
    /\ turns = <<TRUE>>
    /\ deptCalls = <<>>
    /\ cur.kind = "content"
    /\ nLines >= 2

(***************************************************************************)
(* C30 (Spec).  Between two calls of processLine: without a pending call   *)
(* the argument text is empty; the two are set together by the first       *)
(* fragment and reset together; while a call stays pending the text only   *)
(* grows at its end.                                                       *)
(***************************************************************************)
C30_CallAndTextGoTogether ==
    /\ [](~accumulatedToolCall.present => accumulatedArguments = <<>>)
    /\ [][(~accumulatedToolCall.present /\ accumulatedToolCall'.present)
            => /\ cur'.kind = "toolcall"
               /\ accumulatedArguments' = cur'.arguments]_vars
    /\ [][(accumulatedToolCall.present /\ accumulatedToolCall'.present)
            => IsPrefix(accumulatedArguments, accumulatedArguments')]_vars
    /\ [][(accumulatedToolCall.present /\ ~accumulatedToolCall'.present)
            => accumulatedArguments' = <<>>]_vars

\* the accumulator is idle again after a call whose text came in several
\* fragments was resolved
C30_Witness ==
    /\ ~accumulatedToolCall.present
    /\ accumulatedArguments = <<>>
    /\ nLines >= 2
    /\ Len(deptCalls) = 1
    /\ deptCalls[1].status = "ok"
    /\ deptCalls[1].env >= 2


Newlines(s) == {i \in 1..Len(s) : s[i] = NL}

AfterLastNewline(s) ==
    IF Newlines(s) = {} THEN s
    ELSE LET last == CHOOSE i \in Newlines(s) : \A j \in Newlines(s) : j <= i
         IN  SubSeq(s, last + 1, Len(s))

C31_CarryOverNeverProcessed ==
    /\ [][pc' = "done" => /\ handed' = handed
                          /\ buffer' = buffer
                          /\ out' = out
                          /\ deptCalls' = deptCalls]_vars
    /\ [](pc = "done" => /\ Len(handed) = Cardinality(Newlines(text))
                         /\ buffer = AfterLastNewline(text)
                         /\ out = <<>>)

\* the stream has ended after a complete line, with an unterminated line
\* left in the carry-over
C31_Witness ==
    /\ pc = "done"
    /\ buffer # <<>>
    /\ Len(handed) >= 1
    /\ handed[Len(handed)] # <<>>


(***************************************************************************)
(* C32 (SpecSingleShot).  The tool calls of the upstream answer are        *)
(* dispatched one at a time in list order, each awaited before the next;   *)
(* once the handler is through with a message that has tool calls, it has  *)
(* answered, and the body is the stream of the last tool call with a known *)
(* function name, or the text 'No response generated.' when no tool call   *)
(* has a known name.                                                       *)
(***************************************************************************)
KnownCalls ==
    {i \in 1..Len(assistantMessage.tool_calls) :
        assistantMessage.tool_calls[i].name \in KnownFunctions}

\* the dispatches so far are those of the known tool calls the loop has
\* passed, in list order, with at most the last one in flight
SerialInListOrder ==
    /\ InFlight(deptCalls) \subseteq {Len(deptCalls)}
    /\ InFlight(deptCalls) # {} <=> fpc = "await"
    /\ \A k, l \in 1..Len(deptCalls) : k < l => deptCalls[k].env < deptCalls[l].env
    /\ {deptCalls[k].env : k \in 1..Len(deptCalls)}
         = {i \in KnownCalls : i < nextToolCall \/ (i = nextToolCall /\ fpc = "await")}

\* the texts of the non-OK answers a department gives in this model
ErrorTexts ==
    {<<"Error: ", "5", "0", "0", " ", "Internal Server Error">>,
     <<"Error: ", "4", "2", "9", " ", "Too Many Requests">>}

\* the stream department call number k returned
StreamOfCall(k) ==
    IF deptCalls[k].status = "ok" THEN {<<ForwardedChunk(k)>>}
    ELSE {<<TextChunk(t)>> : t \in ErrorTexts}

\* the body is that of the last known tool call, or the initial text
BodyOfLastKnown ==
    /\ response.status = 200
    /\ Len(deptCalls) = Cardinality(KnownCalls)
    /\ IF KnownCalls = {}
       THEN response.body = <<TextChunk(<<"No response generated.">>)>>
       ELSE /\ \A i \in KnownCalls : i <= deptCalls[Len(deptCalls)].env
            /\ response.body \in StreamOfCall(Len(deptCalls))

C32_SerialDispatchLastKnownWins ==
    /\ SerialInListOrder
    /\ (fpc \in {"returned", "threw"} /\ assistantMessage.tool_calls # <<>>)
         => BodyOfLastKnown

\* the same for the messages all of whose tool calls carry arguments that
\* parse as JSON
SerialDispatchWhenArgumentsParse ==
    (\A i \in 1..Len(assistantMessage.tool_calls) :
        IsValidJSON(assistantMessage.tool_calls[i].arguments))
      => /\ SerialInListOrder
         /\ fpc # "threw"
         /\ (fpc = "returned" /\ assistantMessage.tool_calls # <<>>)
              => BodyOfLastKnown

(***************************************************************************)
(* C33 (SpecSingleShot).  A non-OK answer of the department is not raised: *)
(* callDepartment returns a stream of one plain-text chunk 'Error: <status>*)
(* <statusText>' and the loop goes on; when the handler returns with that  *)
(* stream, the response has status 200 and the SSE headers, and its body   *)
(* is that one text chunk: no data frame and no [DONE].                    *)
(***************************************************************************)
LastCallFailed ==
    deptCalls # <<>> /\ deptCalls[Len(deptCalls)].status = "failed"

C33_DepartmentErrorIsPlainTextBody ==
    /\ [][(fpc = "await" /\ deptCalls'[Len(deptCalls)].status = "failed")
            => /\ fpc' = "loop"
               /\ Len(responseStream') = 1
               /\ responseStream'[1].kind = "text"
               /\ responseStream'[1].text \in ErrorTexts]_vars
    /\ []((fpc = "returned" /\ LastCallFailed)
            => /\ response.status = 200
               /\ response.kind = "sse"
               /\ response.headers = SseHeaders
               /\ Len(response.body) = 1
               /\ response.body[1].kind = "text"
               /\ response.body[1].text \in ErrorTexts)

\* the handler has returned after a department answered 429 to the second
\* of two dispatched tool calls
C33_Witness ==
    /\ fpc = "returned"
    /\ Len(deptCalls) = 2
    /\ deptCalls[1].status = "ok"
    /\ LastCallFailed
    /\ response.body = <<TextChunk(<<"Error: ", "4", "2", "9", " ",
                                    "Too Many Requests">>)>>

====
